---- MODULE Spec2Model ----
(***************************************************************************)
(* Model of src/app.py: the UltraMsg WhatsApp messenger (phone formatting, *)
(* the three send operations, the thread-pool broadcast) and the Streamlit *)
(* script's upload / filter / dispatch handlers (text, image, broadcast    *)
(* tabs, each in test mode and in live mode).                              *)
(*                                                                         *)
(* Strings are sequences of one-character strings.  A pandas missing value *)
(* (NaN) is the one-element sequence NaN, which is no string of the model. *)
(***************************************************************************)
EXTENDS Integers, Sequences, FiniteSets, TLC

\* ------------------------------------------------------------------ bounds
MaxRows == 2        \* rows of an uploaded CSV file; the sample is cut to MaxRows + 1
MaxBatch == 3       \* largest batch_size the operator enters (widget: 1..100)
BcMaxLen == 3       \* length of the list handed to send_broadcast
MaxPhoneLen == 3    \* length of a phone string a client hands to a send operation
PoolExtra == 1      \* recipients handed to send_broadcast beyond the pool's size

\* ------------------------------------------------------- program constants
MaxWorkers == 5     \* ThreadPoolExecutor(max_workers=5)

NaN == <<"<NaN>">>
None == <<"<None>">>

Digits == {"0", "1", "2", "3", "4", "5", "6", "7", "8", "9"}

\* str(x): a string is itself, the float NaN prints as "nan", None as "None"
Str(x) ==
    IF x = NaN THEN <<"n", "a", "n">>
    ELSE IF x = None THEN <<"N", "o", "n", "e">>
    ELSE x

\* Python truthiness of a cell value: '' and None are falsy, NaN is truthy
Truthy(x) == x # <<>> /\ x # None

RECURSIVE KeepPhoneChars(_)
KeepPhoneChars(s) ==
    IF s = <<>> THEN <<>>
    ELSE IF Head(s) \in Digits \/ Head(s) = "+"
         THEN <<Head(s)>> \o KeepPhoneChars(Tail(s))
         ELSE KeepPhoneChars(Tail(s))

StartsWithPlus(s) == s # <<>> /\ Head(s) = "+"

\* UltraMsgWhatsAppMessenger._format_phone
_format_phone(phone) ==
    LET phone_str == Str(phone)
        kept == KeepPhoneChars(phone_str)
        clean_phone == IF ~StartsWithPlus(kept) THEN <<"+">> \o kept ELSE kept
    IN  IF StartsWithPlus(clean_phone) THEN Tail(clean_phone) ELSE clean_phone

\* clean_phone_numbers.format_phone
format_phone(phone) ==
    LET phone_str == Str(phone)
        kept == KeepPhoneChars(phone_str)
    IN  IF ~StartsWithPlus(kept) THEN <<"+">> \o kept ELSE kept

\* clean_phone_numbers: the phone column is rewritten, nothing is dropped
clean_phone_numbers(df) ==
    IF df = <<>> THEN <<>>
    ELSE [k \in 1..Len(df) |->
            [df[k] EXCEPT !.phone = format_phone(df[k].phone)]]


\* ------------------------------------------------------------- input data
\* the rows of "Load Sample Data" (dates as yyyymmdd numbers)
sample_data ==
  <<
    [name |-> <<"J", "o", "h", "n", " ", "S", "m", "i", "t", "h">>,
     phone |-> <<"+", "1", "2", "3", "4", "5", "6", "7", "8", "9", "0">>,
     address |-> <<"1", "2", "3", " ", "M", "a", "i", "n", " ", "S", "t", ",", " ", "N", "e", "w", " ", "Y", "o", "r", "k">>,
     last_purchase |-> 20231015, total_spent |-> 350],
    [name |-> <<"E", "m", "m", "a", " ", "J", "o", "h", "n", "s", "o", "n">>,
     phone |-> <<"+", "1", "9", "8", "7", "6", "5", "4", "3", "2", "1">>,
     address |-> <<"4", "5", "6", " ", "O", "a", "k", " ", "A", "v", "e", ",", " ", "N", "e", "w", " ", "Y", "o", "r", "k">>,
     last_purchase |-> 20231120, total_spent |-> 520],
    [name |-> <<"M", "i", "c", "h", "a", "e", "l", " ", "B", "r", "o", "w", "n">>,
     phone |-> <<"+", "1", "1", "2", "2", "3", "3", "4", "4", "5", "5">>,
     address |-> <<"7", "8", "9", " ", "P", "i", "n", "e", " ", "R", "d", ",", " ", "B", "o", "s", "t", "o", "n">>,
     last_purchase |-> 20231205, total_spent |-> 210],
    [name |-> <<"S", "o", "p", "h", "i", "a", " ", "W", "i", "l", "l", "i", "a", "m", "s">>,
     phone |-> <<"+", "1", "5", "5", "5", "6", "6", "6", "7", "7", "7">>,
     address |-> <<"1", "0", "1", " ", "M", "a", "p", "l", "e", " ", "D", "r", ",", " ", "C", "h", "i", "c", "a", "g", "o">>,
     last_purchase |-> 20240110, total_spent |-> 780],
    [name |-> <<"J", "a", "m", "e", "s", " ", "D", "a", "v", "i", "s">>,
     phone |-> <<"+", "1", "9", "9", "9", "8", "8", "8", "7", "7", "7">>,
     address |-> <<"2", "0", "2", " ", "C", "e", "d", "a", "r", " ", "L", "n", ",", " ", "B", "o", "s", "t", "o", "n">>,
     last_purchase |-> 20240225, total_spent |-> 150],
    [name |-> <<"O", "l", "i", "v", "i", "a", " ", "M", "i", "l", "l", "e", "r">>,
     phone |-> <<"+", "1", "7", "7", "7", "8", "8", "8", "9", "9", "9">>,
     address |-> <<"3", "0", "3", " ", "B", "i", "r", "c", "h", " ", "S", "t", ",", " ", "N", "e", "w", " ", "Y", "o", "r", "k">>,
     last_purchase |-> 20240315, total_spent |-> 430]
  >>

\* rows of an uploaded CSV file: a complete row, a row with an empty name
\* cell, a row with an empty phone cell (pandas reads an empty cell as NaN)
UploadRows ==
    { [name |-> <<"A">>, phone |-> <<"+", "1">>, address |-> <<"N", "Y">>,
       last_purchase |-> 20240102, total_spent |-> 2],
      [name |-> NaN, phone |-> <<"2", "-", "3">>, address |-> <<"n", "y">>,
       last_purchase |-> 20240101, total_spent |-> 1],
      [name |-> <<"B">>, phone |-> NaN, address |-> NaN,
       last_purchase |-> 20240102, total_spent |-> 2] }

RECURSIVE SeqsUpTo(_, _)
SeqsUpTo(S, n) ==
    IF n = 0 THEN {<<>>}
    ELSE LET shorter == SeqsUpTo(S, n - 1)
         IN  shorter \cup {Append(q, x) : q \in shorter, x \in S}

\* rows of a CSV file that has the two required columns only
BareRows == { [name |-> <<"C">>, phone |-> <<"4">>] }

\* the uploaded tables: every row of a table has the table's columns
UploadInputs ==
    SeqsUpTo(UploadRows, MaxRows) \cup (SeqsUpTo(BareRows, MaxRows) \ {<<>>})

\* pd.read_csv / pd.DataFrame give the rows the index labels 0, 1, 2, ...
WithIndex(rows) ==
    IF rows = <<>> THEN <<>>
    ELSE [k \in 1..Len(rows) |->
            [c \in DOMAIN rows[k] \cup {"idx"} |->
                IF c = "idx" THEN k - 1 ELSE rows[k][c]]]

\* 'col' in df.columns (a table without rows still has its header)
HasColumn(df, col) == IF df = <<>> THEN TRUE ELSE col \in DOMAIN df[1]

\* ---------------------------------------------------------------- filters
\* str.lower on one character
Lower(c) ==
    CASE c = "A" -> "a"
      [] c = "B" -> "b"
      [] c = "C" -> "c"
      [] c = "D" -> "d"
      [] c = "E" -> "e"
      [] c = "F" -> "f"
      [] c = "G" -> "g"
      [] c = "H" -> "h"
      [] c = "I" -> "i"
      [] c = "J" -> "j"
      [] c = "K" -> "k"
      [] c = "L" -> "l"
      [] c = "M" -> "m"
      [] c = "N" -> "n"
      [] c = "O" -> "o"
      [] c = "P" -> "p"
      [] c = "Q" -> "q"
      [] c = "R" -> "r"
      [] c = "S" -> "s"
      [] c = "T" -> "t"
      [] c = "U" -> "u"
      [] c = "V" -> "v"
      [] c = "W" -> "w"
      [] c = "X" -> "x"
      [] c = "Y" -> "y"
      [] c = "Z" -> "z"
      [] OTHER -> c

LowerStr(s) == [k \in 1..Len(s) |-> Lower(s[k])]

\* Series.str.contains(pat, case=False, na=False) for a pattern of plain
\* characters
Contains(s, pat) ==
    /\ s # NaN
    /\ LET ls == LowerStr(s)
           lp == LowerStr(pat)
       IN  \E k \in 0..(Len(s) - Len(pat)) : SubSeq(ls, k + 1, k + Len(pat)) = lp

\* DataFrame.head(n)
HeadRows(rows, n) == SubSeq(rows, 1, n)

\* apply_filters raises KeyError when a supplied filter reads a column the
\* table does not have
apply_filters_raises(df, address, min_spent, after_date) ==
    \/ Truthy(address) /\ ~HasColumn(df, "address")
    \/ min_spent # <<>> /\ ~HasColumn(df, "total_spent")
    \/ after_date # <<>> /\ ~HasColumn(df, "last_purchase")

\* apply_filters; an absent (None) argument is the empty tuple, a given
\* number n is <<n>>
apply_filters(df, address, min_spent, after_date, limit) ==
    LET f1 == IF Truthy(address)
              THEN SelectSeq(df, LAMBDA r : Contains(r.address, address))
              ELSE df
        f2 == IF min_spent # <<>>
              THEN SelectSeq(f1, LAMBDA r : r.total_spent >= min_spent[1])
              ELSE f1
        f3 == IF after_date # <<>>
              THEN SelectSeq(f2, LAMBDA r : r.last_purchase >= after_date[1])
              ELSE f2
    IN  IF limit # <<>> /\ limit[1] > 0 /\ limit[1] < Len(f3)
        THEN HeadRows(f3, limit[1])
        ELSE f3

\* ------------------------------------------------------------- templating
NameToken == "{name}"

RECURSIVE Replace(_, _)
\* str.replace('{name}', name); the placeholder is one symbol of a template
Replace(template, name) ==
    IF template = <<>> THEN <<>>
    ELSE IF Head(template) = NameToken
         THEN name \o Replace(Tail(template), name)
         ELSE <<Head(template)>> \o Replace(Tail(template), name)

\* str.replace raises TypeError when the replacement is not a str (a NaN cell)
ReplaceRaises(name) == name = NaN

\* what the operator types as message; the image caption may be left empty
Messages == { <<"H", "i", " ", NameToken, "!">> }
Templates == Messages \cup { <<>> }
ImageUrls == { <<>>, <<"u", "1">>, <<"u", "2">> }

\* ---------------------------------------------------------------- batching
RECURSIVE BatchesFrom(_, _, _)
\* for i in range(i0, total, batch_size): batches.append(iloc[i:i+batch_size])
BatchesFrom(recipients, i0, size) ==
    IF i0 >= Len(recipients) THEN <<>>
    ELSE LET last == IF i0 + size < Len(recipients)
                     THEN i0 + size ELSE Len(recipients)
         IN  <<SubSeq(recipients, i0 + 1, last)>>
                \o BatchesFrom(recipients, i0 + size, size)

\* mutant: the loop stops before a last, shorter batch
MakeBatches_DropsTail(recipients, size) ==
    BatchesFrom(SubSeq(recipients, 1, (Len(recipients) \div size) * size), 0, size)

\* the batching loop of "Send Broadcast"
MakeBatches(recipients, size) == BatchesFrom(recipients, 0, size)

\* ------------------------------------------------------------------- state
VARIABLES
    instance_id, api_token,   \* the sidebar's credential inputs
    debug_mode, live_mode,    \* st.session_state['debug_mode' / 'live_mode']
    has_df, df,               \* st.session_state['df']
    has_filtered, filtered_df,\* st.session_state['filtered_df']
    tab,                      \* the handler that is running: none/text/image/broadcast
    pc,                       \* idle, loop, sending, batch_end, done, crashed
    messenger,                \* the UltraMsgWhatsAppMessenger of the run
    template, image_url,      \* text_message / caption / broadcast_message, image URL
    batch_size,               \* broadcast: recipients per batch
    batches, batch_idx,       \* broadcast: the batches, index of the current one
    i,                        \* position (1-based) of the current row in its loop
    sent_count, error_count,
    progress,                 \* last value given to progress_bar.progress: <<num, den>>
    ui_error,                 \* st.error shown instead of starting a run
    httpLog,                  \* requests.post calls of the run, in order
    answers,                  \* what the provider answered to each of them
    errorLog,                 \* error lines written by the run, in order
    pauses,                   \* for each time.sleep of the run: rows visited before it
    last_api_request,         \* st.session_state['last_api_request']: the call it describes
    last_api_response,        \* st.session_state['last_api_response']: the call it answers
    formatted_numbers,        \* send_broadcast: the formatted phone list
    futures,                  \* send_broadcast: state of each submitted task
    responses                 \* send_broadcast: the result list

vars == << instance_id, api_token, debug_mode, live_mode, has_df, df,
           has_filtered, filtered_df, tab, pc, messenger, template,
           image_url, batch_size, batches, batch_idx, i, sent_count, error_count,
           progress, ui_error, httpLog, answers, errorLog, pauses,
           last_api_request, last_api_response, formatted_numbers,
           futures, responses >>

poolVars == << formatted_numbers, futures, responses >>

debugVars == << last_api_request, last_api_response >>

sessionVars == << instance_id, api_token, has_df, df, has_filtered,
                  filtered_df >>
runVars == << tab, pc, messenger, template, image_url, batch_size, batches,
              batch_idx, i,
              sent_count, error_count, progress, httpLog, answers, errorLog,
              pauses, last_api_request, last_api_response, formatted_numbers,
              futures, responses >>

\* UltraMsgWhatsAppMessenger.__init__
NewMessenger(iid, tok) ==
    [base_url |-> IF Truthy(iid)
                  THEN <<"https://api.ultramsg.com/">> \o iid ELSE None,
     api_token |-> tok]

NoMessenger == [base_url |-> None, api_token |-> None]

\* The two debug entries of the session state are modelled by the send call
\* they were written by: the n-th request of the current script run, the last
\* request of an earlier run ("earlier"), a request before that one
\* ("stale"), or no call when the key is not in the session state.
NoCall == [run |-> "none", n |-> 0]
ThisCall(k) == [run |-> "this", n |-> k]
EarlierCall == [run |-> "earlier", n |-> 0]
StaleCall == [run |-> "stale", n |-> 0]

Init ==
    /\ instance_id = <<>> /\ api_token = <<>>
    /\ debug_mode = FALSE /\ live_mode = FALSE
    /\ has_df = FALSE /\ df = <<>>
    /\ has_filtered = FALSE /\ filtered_df = <<>>
    /\ tab = "none" /\ pc = "idle"
    /\ messenger = NoMessenger
    /\ template = <<>> /\ image_url = <<>>
    /\ batch_size = 1 /\ batches = <<>> /\ batch_idx = 0
    /\ i = 0
    /\ sent_count = 0 /\ error_count = 0
    /\ progress = <<0, 1>>
    /\ ui_error = ""
    /\ httpLog = <<>> /\ answers = <<>> /\ errorLog = <<>> /\ pauses = <<>>
    /\ last_api_request = NoCall /\ last_api_response = NoCall
    /\ formatted_numbers = <<>> /\ futures = <<>> /\ responses = <<>>

\* --------------------------------------------------- the session's handlers
InstanceIds == { <<>>, <<"i", "1">> }
ApiTokens == { <<>>, <<"t", "1">> }

\* the sidebar's text inputs
Configure(iid, tok) ==
    /\ pc = "idle"
    /\ instance_id' = iid /\ api_token' = tok
    /\ ui_error' = ""
    /\ UNCHANGED << debug_mode, live_mode, has_df, df, has_filtered,
                    filtered_df >>
    /\ UNCHANGED runVars

\* the "Enable Debug Mode" checkbox
ToggleDebug ==
    /\ pc = "idle"
    /\ debug_mode' = ~debug_mode
    /\ ui_error' = ""
    /\ UNCHANGED << live_mode >>
    /\ UNCHANGED sessionVars
    /\ UNCHANGED runVars

\* the "Live Mode" toggle, shown once customers are selected
ToggleLive ==
    /\ pc = "idle" /\ has_filtered /\ Len(filtered_df) > 0
    /\ live_mode' = ~live_mode
    /\ ui_error' = ""
    /\ UNCHANGED << debug_mode >>
    /\ UNCHANGED sessionVars
    /\ UNCHANGED runVars

\* Data is loaded before the first selection is made: a later load would only
\* replace df, which no dispatch handler reads (they read filtered_df).
\* "Load Sample Data"
LoadSample ==
    /\ pc = "idle" /\ ~has_filtered
    /\ df' = clean_phone_numbers(WithIndex(HeadRows(sample_data, MaxRows + 1)))
    /\ has_df' = TRUE
    /\ ui_error' = ""
    /\ UNCHANGED << instance_id, api_token, debug_mode, live_mode,
                    has_filtered, filtered_df >>
    /\ UNCHANGED runVars

\* the file uploader, for a CSV file that has the required columns
Upload(rows) ==
    /\ pc = "idle" /\ ~has_filtered
    /\ df' = clean_phone_numbers(WithIndex(rows))
    /\ has_df' = TRUE
    /\ ui_error' = ""
    /\ UNCHANGED << instance_id, api_token, debug_mode, live_mode,
                    has_filtered, filtered_df >>
    /\ UNCHANGED runVars

AddressInputs == { <<>>, <<"n", "y">> }
MinSpentInputs == { 0, 2, 400 }
DateInputs == { <<>>, <<20240102>> }
LimitInputs == { 0, 1, 2, 5 }

\* mutant: the filters are applied to the stored table itself, not to a copy
ApplyFilters_InPlace(address_filter, min_spent, purchase_after, limit_customers) ==
    /\ pc = "idle" /\ has_df
    /\ limit_customers <= Len(df)
    /\ purchase_after = <<>> \/ HasColumn(df, "last_purchase")
    /\ LET address == IF Truthy(address_filter) THEN address_filter ELSE None
           spent == IF min_spent > 0 THEN <<min_spent>> ELSE <<>>
           after_date == purchase_after
           limit == IF limit_customers > 0 THEN <<limit_customers>> ELSE <<>>
       IN  IF apply_filters_raises(df, address, spent, after_date)
           THEN /\ ui_error' = "KeyError"
                /\ UNCHANGED << has_filtered, filtered_df, df >>
           ELSE /\ filtered_df' =
                      apply_filters(df, address, spent, after_date, limit)
                /\ df' = filtered_df'
                /\ has_filtered' = TRUE
                /\ ui_error' = ""
    /\ UNCHANGED << instance_id, api_token, debug_mode, live_mode, has_df >>
    /\ UNCHANGED runVars

\* "Apply Filters"; the date input exists only when the table has a
\* last_purchase column.  An exception of apply_filters ends the script run
\* before the selection is stored.
ApplyFilters(address_filter, min_spent, purchase_after, limit_customers) ==
    /\ pc = "idle" /\ has_df
    /\ limit_customers <= Len(df)
    /\ purchase_after = <<>> \/ HasColumn(df, "last_purchase")
    /\ LET address == IF Truthy(address_filter) THEN address_filter ELSE None
           spent == IF min_spent > 0 THEN <<min_spent>> ELSE <<>>
           after_date == purchase_after
           limit == IF limit_customers > 0 THEN <<limit_customers>> ELSE <<>>
       IN  IF apply_filters_raises(df, address, spent, after_date)
           THEN /\ ui_error' = "KeyError"
                /\ UNCHANGED << has_filtered, filtered_df >>
           ELSE /\ filtered_df' =
                      apply_filters(df, address, spent, after_date, limit)
                /\ has_filtered' = TRUE
                /\ ui_error' = ""
    /\ UNCHANGED << instance_id, api_token, debug_mode, live_mode, has_df,
                    df >>
    /\ UNCHANGED runVars

\* ------------------------------------------------------- starting a run
\* the "if not (instance_id and api_token)" test of the three buttons
CredsOk == Truthy(instance_id) /\ Truthy(api_token)

Selectable == has_filtered /\ Len(filtered_df) > 0

Rejected(msg) ==
    /\ ui_error' = msg
    /\ UNCHANGED runVars

Started(t, tmpl, url, bs) ==
    /\ ui_error' = ""
    /\ messenger' = NewMessenger(instance_id, api_token)
    /\ tab' = t /\ pc' = "loop"
    /\ template' = tmpl /\ image_url' = url
    /\ batch_size' = bs
    /\ batches' = IF t = "broadcast" THEN MakeBatches(filtered_df, bs) ELSE <<>>
    /\ batch_idx' = 0
    /\ i' = 1
    /\ sent_count' = 0 /\ error_count' = 0
    /\ progress' = <<0, 1>>
    /\ httpLog' = <<>> /\ answers' = <<>> /\ errorLog' = <<>> /\ pauses' = <<>>
    /\ UNCHANGED poolVars
    /\ UNCHANGED debugVars

\* "Send Text Messages"
StartText(text_message) ==
    /\ pc = "idle" /\ Selectable
    /\ IF ~CredsOk THEN Rejected("credentials")
       ELSE Started("text", text_message, <<>>, 1)
    /\ UNCHANGED << debug_mode, live_mode >>
    /\ UNCHANGED sessionVars

\* "Send Image Messages"
StartImage(url, caption) ==
    /\ pc = "idle" /\ Selectable
    /\ IF ~Truthy(url) THEN Rejected("image_url")
       ELSE IF ~CredsOk THEN Rejected("credentials")
       ELSE Started("image", caption, url, 1)
    /\ UNCHANGED << debug_mode, live_mode >>
    /\ UNCHANGED sessionVars

\* "Send Broadcast"
StartBroadcast(broadcast_message, bs) ==
    /\ pc = "idle" /\ Selectable
    /\ IF ~CredsOk THEN Rejected("credentials")
       ELSE Started("broadcast", broadcast_message, <<>>, bs)
    /\ UNCHANGED << debug_mode, live_mode >>
    /\ UNCHANGED sessionVars

\* ------------------------------------------------------------ the messenger
Outcomes == { "ok", "badjson", "non200", "neterr" }

\* mutant: the guard forgets the token
NotConfigured_UrlOnly(m) == ~Truthy(m.base_url)

\* the guard of send_message / send_image / send_broadcast
NotConfigured(m) == ~Truthy(m.base_url) \/ ~Truthy(m.api_token)

\* the request send_message posts; original_phone is the argument it was
\* given, as send_message records it in last_api_request
ChatRequest(p, to, message) ==
    [op |-> "chat", pos |-> p, to |-> _format_phone(to), body |-> message,
     image |-> None, original_phone |-> to]

\* mutant: the media reference is rebuilt for each recipient
ImageRequest_PerRecipient(p, to, url, caption) ==
    [op |-> "image", pos |-> p, to |-> _format_phone(to),
     body |-> IF Truthy(caption) THEN caption ELSE None,
     image |-> url \o _format_phone(to), original_phone |-> to]

\* the request send_image posts; the caption is sent only when it is truthy
ImageRequest(p, to, url, caption) ==
    [op |-> "image", pos |-> p, to |-> _format_phone(to),
     body |-> IF Truthy(caption) THEN caption ELSE None, image |-> url,
     original_phone |-> to]

\* ------------------------------------------------------ text and image tabs
total == Len(filtered_df)

\* what a loop iteration leaves alone
UnchangedInLoop ==
    UNCHANGED << instance_id, api_token, debug_mode, live_mode, has_df, df,
                 has_filtered, filtered_df, tab, messenger, template,
                 image_url, batch_size, batches, ui_error, formatted_numbers,
                 futures, responses >>

\* the text of the exception a failed send raises, by the provider's answer
ErrorOf(outcome) ==
    CASE outcome = "non200" -> "API Error"
      [] outcome = "badjson" -> "JSONDecodeError"
      [] OTHER -> "ConnectionError"

\* the line of the except branch: "Error sending to <name>: <exception>"
ErrorLine(p, row, msg) ==
    [pos |-> p, name |-> Str(row.name), kind |-> "error", message |-> msg]
\* the line of the "if not phone" branch
SkipLine(p, row) ==
    [pos |-> p, name |-> Str(row.name), kind |-> "skip", message |-> "Missing phone number"]

\* mutant: the test-mode loop of the text tab calls send_message
TestTextStep_Posts ==
    /\ pc = "loop" /\ tab = "text" /\ ~live_mode /\ i <= total
    /\ ~ReplaceRaises(filtered_df[i].name)
    /\ httpLog' = Append(httpLog, ChatRequest(i, filtered_df[i].phone,
                                      Replace(template, filtered_df[i].name)))
    /\ pc' = "sending"
    /\ last_api_request' = ThisCall(Len(httpLog) + 1)
    /\ UNCHANGED << i, batch_idx, sent_count, error_count, progress, answers,
                    errorLog, pauses, last_api_response >>
    /\ UnchangedInLoop

\* one iteration of the test-mode loop of the text tab
TestTextStep ==
    /\ pc = "loop" /\ tab = "text" /\ ~live_mode /\ i <= total
    /\ LET row == filtered_df[i]
       IN  IF ReplaceRaises(row.name)
           THEN /\ pc' = "crashed"
                /\ UNCHANGED << i, progress, pauses >>
           ELSE IF row.idx + 1 > total
           THEN /\ progress' = <<row.idx + 1, total>>
                /\ pc' = "crashed"
                /\ UNCHANGED << i, pauses >>
           ELSE /\ progress' = <<row.idx + 1, total>>
                /\ pauses' = Append(pauses, i)
                /\ i' = i + 1
                /\ UNCHANGED pc
    /\ UNCHANGED << batch_idx, sent_count, error_count, httpLog, answers,
                    errorLog >>
    /\ UNCHANGED debugVars
    /\ UnchangedInLoop

\* one iteration of the test-mode loop of the image tab
TestImageStep ==
    /\ pc = "loop" /\ tab = "image" /\ ~live_mode /\ i <= total
    /\ LET row == filtered_df[i]
       IN  IF Truthy(template) /\ ReplaceRaises(row.name)
           THEN /\ pc' = "crashed"
                /\ UNCHANGED << i, progress, pauses >>
           ELSE IF row.idx + 1 > total
           THEN /\ progress' = <<row.idx + 1, total>>
                /\ pc' = "crashed"
                /\ UNCHANGED << i, pauses >>
           ELSE /\ progress' = <<row.idx + 1, total>>
                /\ pauses' = Append(pauses, i)
                /\ i' = i + 1
                /\ UNCHANGED pc
    /\ UNCHANGED << batch_idx, sent_count, error_count, httpLog, answers,
                    errorLog >>
    /\ UNCHANGED debugVars
    /\ UnchangedInLoop

\* mutant: the exception is not caught inside the loop and ends the run
Failed_Aborts(p, row, shown, msg) ==
    /\ error_count' = error_count + 1
    /\ errorLog' = IF shown THEN Append(errorLog, ErrorLine(p, row, msg))
                   ELSE errorLog
    /\ pc' = "crashed"
    /\ UNCHANGED << i, sent_count, progress >>

\* the except branch of a live loop: one more error; the error line is
\* written always (text, image) or in debug mode only (broadcast)
Failed(p, row, shown, msg) ==
    /\ error_count' = error_count + 1
    /\ errorLog' = IF shown THEN Append(errorLog, ErrorLine(p, row, msg))
                   ELSE errorLog
    /\ i' = i + 1
    /\ pc' = "loop"
    /\ UNCHANGED << sent_count, progress >>

\* the "if not phone" branch of a live loop
Skipped(p, row) ==
    /\ error_count' = error_count + 1
    /\ errorLog' = Append(errorLog, SkipLine(p, row))
    /\ i' = i + 1
    /\ pc' = "loop"
    /\ UNCHANGED << sent_count, progress >>

\* mutant: the loop goes on to the next recipient without waiting
Posted_NoWait(request) ==
    /\ httpLog' = Append(httpLog, request)
    /\ last_api_request' = ThisCall(Len(httpLog) + 1)
    /\ i' = i + 1
    /\ pc' = "loop"
    /\ UNCHANGED << sent_count, error_count, progress, errorLog, answers,
                    last_api_response >>

\* last_api_request is stored and requests.post is called: the handler waits
\* for the provider's answer
Posted(request) ==
    /\ httpLog' = Append(httpLog, request)
    /\ last_api_request' = ThisCall(Len(httpLog) + 1)
    /\ pc' = "sending"
    /\ UNCHANGED << i, sent_count, error_count, progress, errorLog, answers,
                    last_api_response >>

NothingPosted == UNCHANGED << httpLog, answers, last_api_request,
                              last_api_response >>

\* requests.post returns and last_api_response is stored, or it raises and
\* the entry keeps the answer of an earlier call
Answer(outcome) ==
    /\ last_api_response' = IF outcome = "neterr" THEN last_api_response
                            ELSE ThisCall(Len(httpLog))
    /\ UNCHANGED last_api_request

\* one iteration of the live loop of the text tab, up to requests.post
LiveTextStep ==
    /\ pc = "loop" /\ tab = "text" /\ live_mode /\ i <= total
    /\ LET row == filtered_df[i]
       IN  IF ReplaceRaises(row.name)
           THEN Failed(i, row, TRUE, "TypeError") /\ NothingPosted
           ELSE IF ~Truthy(row.phone)
           THEN Skipped(i, row) /\ NothingPosted
           ELSE IF NotConfigured(messenger)
           THEN Failed(i, row, TRUE, "ValueError") /\ NothingPosted
           ELSE Posted(ChatRequest(i, row.phone, Replace(template, row.name)))
    /\ UNCHANGED << batch_idx, pauses >>
    /\ UnchangedInLoop

\* one iteration of the live loop of the image tab, up to requests.post
LiveImageStep ==
    /\ pc = "loop" /\ tab = "image" /\ live_mode /\ i <= total
    /\ LET row == filtered_df[i]
       IN  IF Truthy(template) /\ ReplaceRaises(row.name)
           THEN Failed(i, row, TRUE, "TypeError") /\ NothingPosted
           ELSE IF ~Truthy(row.phone)
           THEN Skipped(i, row) /\ NothingPosted
           ELSE IF NotConfigured(messenger)
           THEN Failed(i, row, TRUE, "ValueError") /\ NothingPosted
           ELSE Posted(ImageRequest(i, row.phone, image_url,
                          IF Truthy(template) THEN Replace(template, row.name)
                          ELSE None))
    /\ UNCHANGED << batch_idx, pauses >>
    /\ UnchangedInLoop

\* the answer to the request of the text or image tab: send_message /
\* send_image return or raise, and the loop body counts the recipient; the
\* time.sleep(1) is the last statement of the try block
ReceiveItem(outcome) ==
    /\ pc = "sending" /\ tab \in {"text", "image"}
    /\ answers' = Append(answers, outcome)
    /\ Answer(outcome)
    /\ IF outcome = "ok"
       THEN /\ sent_count' = sent_count + 1
            /\ progress' = <<sent_count + 1 + error_count, total>>
            /\ pauses' = Append(pauses, i)
            /\ i' = i + 1
            /\ pc' = "loop"
            /\ UNCHANGED << error_count, errorLog >>
       ELSE Failed(i, filtered_df[i], TRUE, ErrorOf(outcome))
            /\ UNCHANGED pauses
    /\ UNCHANGED << httpLog, batch_idx >>
    /\ UnchangedInLoop

\* the end of the loop of the text or image tab: st.success
LoopDone ==
    /\ pc = "loop" /\ tab \in {"text", "image"} /\ i > total
    /\ pc' = "done"
    /\ UNCHANGED << i, batch_idx, sent_count, error_count, progress, httpLog,
                    answers, errorLog, pauses >>
    /\ UNCHANGED debugVars
    /\ UnchangedInLoop

\* ----------------------------------------------------------- broadcast tab
batch == batches[batch_idx + 1]

RECURSIVE RowsIn(_, _)
\* the number of rows in the first k batches
RowsIn(bs, k) == IF k = 0 THEN 0 ELSE RowsIn(bs, k - 1) + Len(bs[k])

\* position in the selection of row i of the current batch
pos == RowsIn(batches, batch_idx) + i

\* one iteration of the inner loop of the simulated broadcast
TestBroadcastStep ==
    /\ pc = "loop" /\ tab = "broadcast" /\ ~live_mode /\ i <= Len(batch)
    /\ IF ReplaceRaises(batch[i].name)
       THEN pc' = "crashed" /\ UNCHANGED i
       ELSE i' = i + 1 /\ UNCHANGED pc
    /\ UNCHANGED << batch_idx, sent_count, error_count, progress, httpLog,
                    answers, errorLog, pauses >>
    /\ UNCHANGED debugVars
    /\ UnchangedInLoop

\* one iteration of the inner loop of the live broadcast, up to requests.post
LiveBroadcastStep ==
    /\ pc = "loop" /\ tab = "broadcast" /\ live_mode /\ i <= Len(batch)
    /\ LET row == batch[i]
       IN  IF ~Truthy(row.phone)
           THEN Skipped(pos, row) /\ NothingPosted
           ELSE IF ReplaceRaises(row.name)
           THEN Failed(pos, row, debug_mode, "TypeError") /\ NothingPosted
           ELSE IF NotConfigured(messenger)
           THEN Failed(pos, row, debug_mode, "ValueError") /\ NothingPosted
           ELSE Posted(ChatRequest(pos, row.phone, Replace(template, row.name)))
    /\ UNCHANGED << batch_idx, pauses >>
    /\ UnchangedInLoop

\* the answer to a request of the live broadcast
ReceiveBroadcast(outcome) ==
    /\ pc = "sending" /\ tab = "broadcast"
    /\ answers' = Append(answers, outcome)
    /\ Answer(outcome)
    /\ IF outcome = "ok"
       THEN /\ sent_count' = sent_count + 1
            /\ i' = i + 1
            /\ pc' = "loop"
            /\ UNCHANGED << error_count, progress, errorLog >>
       ELSE Failed(pos, batch[i], debug_mode, ErrorOf(outcome))
    /\ UNCHANGED << httpLog, batch_idx, pauses >>
    /\ UnchangedInLoop

\* mutant: the pause is taken after every batch, the last one included
BatchEnd_PauseAfterLast ==
    /\ pc = "loop" /\ tab = "broadcast" /\ i > Len(batch)
    /\ progress' = <<batch_idx + 1, Len(batches)>>
    /\ pauses' = Append(pauses, pos - 1)
    /\ IF batch_idx + 1 < Len(batches)
       THEN batch_idx' = batch_idx + 1 /\ i' = 1 /\ UNCHANGED pc
       ELSE pc' = "done" /\ UNCHANGED << batch_idx, i >>
    /\ UNCHANGED << sent_count, error_count, httpLog, answers, errorLog >>
    /\ UNCHANGED debugVars
    /\ UnchangedInLoop

\* after the inner loop: progress, the pause when another batch follows,
\* then the next batch or st.success
BatchEnd ==
    /\ pc = "loop" /\ tab = "broadcast" /\ i > Len(batch)
    /\ progress' = <<batch_idx + 1, Len(batches)>>
    /\ pauses' = IF batch_idx < Len(batches) - 1
                 THEN Append(pauses, pos - 1)
                 ELSE pauses
    /\ IF batch_idx + 1 < Len(batches)
       THEN batch_idx' = batch_idx + 1 /\ i' = 1 /\ UNCHANGED pc
       ELSE pc' = "done" /\ UNCHANGED << batch_idx, i >>
    /\ UNCHANGED << sent_count, error_count, httpLog, answers, errorLog >>
    /\ UNCHANGED debugVars
    /\ UnchangedInLoop

\* the script run ends (completed, or stopped by an uncaught exception); its
\* local variables are gone and the page waits for the next event; the two
\* debug entries stay in the session state
ScriptEnd ==
    /\ tab \in {"text", "image", "broadcast"}
    /\ pc \in {"done", "crashed"}
    /\ tab' = "none" /\ pc' = "idle"
    /\ messenger' = NoMessenger
    /\ template' = <<>> /\ image_url' = <<>>
    /\ batch_size' = 1 /\ batches' = <<>> /\ batch_idx' = 0
    /\ i' = 0
    /\ sent_count' = 0 /\ error_count' = 0
    /\ progress' = <<0, 1>>
    /\ httpLog' = <<>> /\ answers' = <<>> /\ errorLog' = <<>> /\ pauses' = <<>>
    /\ last_api_request' = IF last_api_request = NoCall THEN NoCall
                           ELSE EarlierCall
    /\ last_api_response' = IF last_api_response = NoCall THEN NoCall
                            ELSE IF last_api_response = last_api_request
                            THEN EarlierCall
                            ELSE StaleCall
    /\ UNCHANGED poolVars
    /\ UNCHANGED << debug_mode, live_mode, ui_error >>
    /\ UNCHANGED sessionVars

\* ------------------------------------------- the messenger used directly
\* The class is also usable without the page (send_broadcast has no caller in
\* main).  A client constructs a messenger and calls one operation; the page's
\* session plays no part in it, so these calls start from a fresh session.
\* the phone a client hands to send_message / send_image: any string of a
\* digit, '+' and a separator up to MaxPhoneLen characters, or None
PhoneChars == { "1", "+", "-" }
ApiPhones == SeqsUpTo(PhoneChars, MaxPhoneLen) \cup { None }

\* the phone lists given to send_broadcast: n times the same phone (every
\* entry a duplicate), and n phones that alternate between two numbers
SamePhone(n) == [k \in 1..n |-> <<"+", "1">>]
Alternating(n) == [k \in 1..n |-> IF k % 2 = 1 THEN <<"+", "1">> ELSE <<"2", "-", "3">>]
ApiInputs == { SamePhone(n) : n \in 0..BcMaxLen } \cup { Alternating(n) : n \in 0..BcMaxLen }

ClientIdle == pc = "idle" /\ ~has_df /\ ~has_filtered

UnchangedByClient ==
    UNCHANGED << instance_id, api_token, debug_mode, live_mode, has_df, df,
                 has_filtered, filtered_df, batch_size, batches, batch_idx, i,
                 sent_count, error_count, progress, ui_error, errorLog,
                 pauses >>

\* send_message called by a client, up to requests.post
CallSendMessage(iid, tok, to, message) ==
    /\ ClientIdle
    /\ messenger' = NewMessenger(iid, tok)
    /\ tab' = "api_chat"
    /\ template' = message /\ image_url' = <<>>
    /\ answers' = <<>>
    /\ IF NotConfigured(messenger')
       THEN pc' = "raised" /\ httpLog' = <<>> /\ UNCHANGED last_api_request
       ELSE /\ pc' = "sending" /\ httpLog' = <<ChatRequest(1, to, message)>>
            /\ last_api_request' = ThisCall(1)
    /\ UNCHANGED last_api_response
    /\ UNCHANGED poolVars
    /\ UnchangedByClient

\* send_image called by a client, up to requests.post
CallSendImage(iid, tok, to, url, caption) ==
    /\ ClientIdle
    /\ messenger' = NewMessenger(iid, tok)
    /\ tab' = "api_image"
    /\ template' = caption /\ image_url' = url
    /\ answers' = <<>>
    /\ IF NotConfigured(messenger')
       THEN pc' = "raised" /\ httpLog' = <<>> /\ UNCHANGED last_api_request
       ELSE /\ pc' = "sending"
            /\ httpLog' = <<ImageRequest(1, to, url, caption)>>
            /\ last_api_request' = ThisCall(1)
    /\ UNCHANGED last_api_response
    /\ UNCHANGED poolVars
    /\ UnchangedByClient

\* the answer to a client's send_message / send_image: return or raise
ReceiveCall(outcome) ==
    /\ pc = "sending" /\ tab \in {"api_chat", "api_image"}
    /\ answers' = Append(answers, outcome)
    /\ Answer(outcome)
    /\ pc' = IF outcome = "ok" THEN "returned" ELSE "raised"
    /\ UNCHANGED << tab, messenger, template, image_url, httpLog >>
    /\ UNCHANGED poolVars
    /\ UnchangedByClient

\* send_broadcast, up to the creation of the executor
CallSendBroadcast(iid, tok, to_numbers, message) ==
    /\ ClientIdle
    /\ messenger' = NewMessenger(iid, tok)
    /\ tab' = "pool"
    /\ template' = message /\ image_url' = <<>>
    /\ httpLog' = <<>> /\ answers' = <<>>
    /\ futures' = <<>> /\ responses' = <<>>
    /\ IF NotConfigured(messenger')
       THEN pc' = "raised" /\ formatted_numbers' = <<>>
       ELSE /\ formatted_numbers' =
                  [k \in 1..Len(to_numbers) |-> _format_phone(to_numbers[k])]
            /\ pc' = IF to_numbers = <<>> THEN "collect" ELSE "submit"
    /\ UNCHANGED debugVars
    /\ UnchangedByClient

UnchangedInPool ==
    /\ UNCHANGED << tab, messenger, template, image_url, formatted_numbers,
                    answers, last_api_request, last_api_response >>
    /\ UnchangedByClient

\* executor.submit for the next phone of the list
Submit ==
    /\ tab = "pool" /\ pc = "submit"
    /\ futures' = Append(futures, "queued")
    /\ pc' = IF Len(futures) + 1 = Len(formatted_numbers) THEN "collect" ELSE "submit"
    /\ UNCHANGED << httpLog, responses >>
    /\ UnchangedInPool

Running == { k \in 1..Len(futures) : futures[k] = "running" }
Finished == { k \in 1..Len(futures) : futures[k] \in {"ok", "non200", "raised"} }
Collected == { responses[k].fut : k \in 1..Len(responses) }

\* mutant: every submitted task gets a thread of its own at once
WorkerStart_Unbounded(k) ==
    /\ tab = "pool" /\ pc \in {"submit", "collect"}
    /\ k \in 1..Len(futures) /\ futures[k] = "queued"
    /\ \A j \in 1..(k - 1) : futures[j] # "queued"
    /\ futures' = [futures EXCEPT ![k] = "running"]
    /\ httpLog' = Append(httpLog,
                     [op |-> "chat", pos |-> k, to |-> formatted_numbers[k],
                      body |-> template, image |-> None,
                      original_phone |-> formatted_numbers[k]])
    /\ UNCHANGED << pc, responses >>
    /\ UnchangedInPool

\* a worker thread takes the oldest queued task and posts its request
WorkerStart(k) ==
    /\ tab = "pool" /\ pc \in {"submit", "collect"}
    /\ k \in 1..Len(futures) /\ futures[k] = "queued"
    /\ \A j \in 1..(k - 1) : futures[j] # "queued"
    /\ Cardinality(Running) < MaxWorkers
    /\ futures' = [futures EXCEPT ![k] = "running"]
    /\ httpLog' = Append(httpLog,
                     [op |-> "chat", pos |-> k, to |-> formatted_numbers[k],
                      body |-> template, image |-> None,
                      original_phone |-> formatted_numbers[k]])
    /\ UNCHANGED << pc, responses >>
    /\ UnchangedInPool

\* mutant: the worker thread appends its result to the list itself
WorkerFinish_Appends(k, outcome) ==
    /\ tab = "pool" /\ pc \in {"submit", "collect"}
    /\ k \in 1..Len(futures) /\ futures[k] = "running"
    /\ futures' = [futures EXCEPT ![k] =
                      CASE outcome = "ok" -> "ok"
                        [] outcome = "non200" -> "non200"
                        [] OTHER -> "raised"]
    /\ responses' = Append(responses,
                       [fut |-> k, phone |-> formatted_numbers[k],
                        success |-> outcome = "ok"])
    /\ UNCHANGED << pc, httpLog >>
    /\ UnchangedInPool

\* send_single_message gets its answer: it returns a result or raises
WorkerFinish(k, outcome) ==
    /\ tab = "pool" /\ pc \in {"submit", "collect"}
    /\ k \in 1..Len(futures) /\ futures[k] = "running"
    /\ futures' = [futures EXCEPT ![k] =
                      CASE outcome = "ok" -> "ok"
                        [] outcome = "non200" -> "non200"
                        [] OTHER -> "raised"]
    /\ UNCHANGED << pc, httpLog, responses >>
    /\ UnchangedInPool

\* mutant: the exception of a failed task leaves send_broadcast
Collect_Propagates(k) ==
    /\ tab = "pool" /\ pc = "collect"
    /\ k \in Finished \ Collected
    /\ IF futures[k] = "raised"
       THEN pc' = "raised" /\ UNCHANGED responses
       ELSE /\ responses' = Append(responses,
                                [fut |-> k, phone |-> formatted_numbers[k],
                                 success |-> futures[k] = "ok"])
            /\ UNCHANGED pc
    /\ UNCHANGED << httpLog, futures >>
    /\ UnchangedInPool

\* one turn of the as_completed loop: the result of a finished future, or
\* the failure entry of the except branch, is appended
Collect(k) ==
    /\ tab = "pool" /\ pc = "collect"
    /\ k \in Finished \ Collected
    /\ responses' = Append(responses,
                       [fut |-> k, phone |-> formatted_numbers[k],
                        success |-> futures[k] = "ok"])
    /\ UNCHANGED << pc, httpLog, futures >>
    /\ UnchangedInPool

\* mutant: the call returns once the futures finished so far are collected
PoolReturn_Early ==
    /\ tab = "pool" /\ pc = "collect"
    /\ Finished \subseteq Collected
    /\ pc' = "returned"
    /\ UNCHANGED << httpLog, futures, responses >>
    /\ UnchangedInPool

\* as_completed is exhausted, the executor shuts down, responses is returned
PoolReturn ==
    /\ tab = "pool" /\ pc = "collect"
    /\ Collected = 1..Len(formatted_numbers)
    /\ pc' = "returned"
    /\ UNCHANGED << httpLog, futures, responses >>
    /\ UnchangedInPool

\* the client is done with the call and its messenger; its session ends
CallEnd ==
    /\ tab \in {"api_chat", "api_image", "pool"}
    /\ pc \in {"returned", "raised"}
    /\ tab' = "none" /\ pc' = "idle"
    /\ messenger' = NoMessenger
    /\ template' = <<>> /\ image_url' = <<>>
    /\ httpLog' = <<>> /\ answers' = <<>>
    /\ formatted_numbers' = <<>> /\ futures' = <<>> /\ responses' = <<>>
    /\ last_api_request' = NoCall /\ last_api_response' = NoCall
    /\ UnchangedByClient

\* --------------------------------------------------------- specification
Next ==
    \/ \E iid \in InstanceIds, tok \in ApiTokens : Configure(iid, tok)
    \/ LoadSample
    \/ \E rows \in UploadInputs : Upload(rows)
    \/ \E a \in AddressInputs, m \in MinSpentInputs, d \in DateInputs,
          l \in LimitInputs : ApplyFilters(a, m, d, l)
    \/ ToggleDebug
    \/ ToggleLive
    \/ \E t \in Messages : StartText(t)
    \/ \E u \in ImageUrls, t \in Templates : StartImage(u, t)
    \/ \E t \in Messages, bs \in 1..MaxBatch : StartBroadcast(t, bs)
    \/ TestTextStep
    \/ TestImageStep
    \/ LiveTextStep
    \/ LiveImageStep
    \/ \E o \in Outcomes : ReceiveItem(o)
    \/ LoopDone
    \/ TestBroadcastStep
    \/ LiveBroadcastStep
    \/ \E o \in Outcomes : ReceiveBroadcast(o)
    \/ BatchEnd
    \/ ScriptEnd
    \/ \E iid \in InstanceIds, tok \in ApiTokens, to \in ApiPhones,
          m \in Messages : CallSendMessage(iid, tok, to, m)
    \/ \E iid \in InstanceIds, tok \in ApiTokens, to \in ApiPhones,
          u \in ImageUrls, c \in Templates : CallSendImage(iid, tok, to, u, c)
    \/ \E o \in Outcomes : ReceiveCall(o)
    \/ \E iid \in InstanceIds, tok \in ApiTokens, ns \in ApiInputs,
          m \in Messages : CallSendBroadcast(iid, tok, ns, m)
    \/ Submit
    \/ \E k \in 1..Len(futures) : WorkerStart(k)
    \/ \E k \in 1..Len(futures), o \in Outcomes : WorkerFinish(k, o)
    \/ \E k \in 1..Len(futures) : Collect(k)
    \/ PoolReturn
    \/ CallEnd

Spec == Init /\ [][Next]_vars

\* The script is one thread that runs a started handler to its end, and
\* requests.post returns or raises: a started run keeps taking its steps.
RunStep ==
    \/ TestTextStep \/ TestImageStep \/ TestBroadcastStep
    \/ LiveTextStep \/ LiveImageStep \/ LiveBroadcastStep
    \/ \E o \in Outcomes : ReceiveItem(o)
    \/ \E o \in Outcomes : ReceiveBroadcast(o)
    \/ LoopDone
    \/ BatchEnd

FairSpec == Init /\ [][Next]_vars /\ WF_vars(RunStep)

\* send_broadcast with more recipients than the executor has workers: a
\* client hands it a list longer than the pool; a worker ends by returning
\* its result or by raising.
PoolLen == MaxWorkers + PoolExtra
PoolOutcomes == { "ok", "neterr" }

PoolNext ==
    \/ \E m \in Messages :
          CallSendBroadcast(<<"i", "1">>, <<"t", "1">>, Alternating(PoolLen), m)
    \/ Submit
    \/ \E k \in 1..Len(futures) : WorkerStart(k)
    \/ \E k \in 1..Len(futures), o \in PoolOutcomes : WorkerFinish(k, o)
    \/ \E k \in 1..Len(futures) : Collect(k)
    \/ PoolReturn
    \/ CallEnd

PoolSpec == Init /\ [][PoolNext]_vars

\* ------------------------------------------------------------------ claims
UiRun == tab \in {"text", "image", "broadcast"}
LiveRun == UiRun /\ live_mode
TestRun == UiRun /\ ~live_mode

\* a phone value without any digit: missing, blank or unparsable
HasDigit(phone) == \E k \in 1..Len(Str(phone)) : Str(phone)[k] \in Digits
BlankRows == { k \in 1..total : ~HasDigit(filtered_df[k].phone) }

\* the requests of the run made for the recipient at position p
RequestsFor(p) == { k \in 1..Len(httpLog) : httpLog[k].pos = p }
\* the error lines of the run that refer to the recipient at position p
ErrorLinesFor(p) ==
    { k \in 1..Len(errorLog) : errorLog[k].pos = p /\ errorLog[k].kind = "error" }

\* the recipient's own data lets the loop reach its send call
Sendable(row) ==
    /\ Truthy(row.phone)
    /\ ~((tab # "image" \/ Truthy(template)) /\ ReplaceRaises(row.name))

\* C1: a completed live run over N recipients, M of them with a blank phone,
\* has sentCount + errorCount = N and errorCount >= M.
C1_CountsCoverSelection ==
    (LiveRun /\ pc = "done") =>
        /\ sent_count + error_count = total
        /\ error_count >= Cardinality(BlankRows)

\* C2: in a completed live run, a non-200 answer for recipient R has not
\* prevented the send to any later recipient, and the error log holds exactly
\* one entry that refers to R.
C2_FailureIsolatedAndLogged ==
    (LiveRun /\ pc = "done") =>
        \A k \in 1..Len(answers) :
            answers[k] = "non200" =>
                LET R == httpLog[k].pos
                IN  /\ \A p \in (R + 1)..total :
                          Sendable(filtered_df[p]) => RequestsFor(p) # {}
                    /\ Cardinality(ErrorLinesFor(R)) = 1

RECURSIVE Concat(_)
Concat(ss) == IF ss = <<>> THEN <<>> ELSE Head(ss) \o Concat(Tail(ss))

CeilDiv(n, d) == (n + d - 1) \div d

\* bs are the batches of the selection sel for the batch size size
IsPartition(bs, sel, size) ==
    /\ Concat(bs) = sel
    /\ Len(bs) = CeilDiv(Len(sel), size)
    /\ \A k \in 1..Len(bs) : Len(bs[k]) >= 1 /\ Len(bs[k]) <= size
    /\ \A k \in 1..(Len(bs) - 1) : Len(bs[k]) = size

\* C3: the batches of a broadcast are contiguous slices whose concatenation is
\* the selection, each of at most batch_size rows, all but the last of exactly
\* batch_size rows, ceil(N / batch_size) in number; also for the empty table.
C3_BatchesPartitionSelection ==
    /\ (tab = "broadcast") => IsPartition(batches, filtered_df, batch_size)
    /\ has_df => \A size \in 1..MaxBatch :
                     IsPartition(MakeBatches(df, size), df, size)

C3_Witness ==
    /\ tab = "broadcast" /\ batch_size = 2 /\ Len(filtered_df) = 3
    /\ Len(batches) = 2 /\ Len(batches[2]) = 1

\* the number of batches the run has finished that have a successor
BatchesLeft == IF pc = "done" THEN Len(batches) - 1 ELSE batch_idx

\* C4: in a broadcast run (live or test) one pause follows each finished batch
\* that has a successor, taken when exactly the rows of the batches before it
\* have been visited; no pause follows the last batch: B - 1 pauses in all.
C4_PauseBetweenBatchesOnly ==
    (tab = "broadcast") =>
        /\ Len(pauses) = BatchesLeft
        /\ \A k \in 1..Len(pauses) : pauses[k] = RowsIn(batches, k)
        /\ pc = "done" => Len(pauses) = Len(batches) - 1

C4_Witness ==
    /\ tab = "broadcast" /\ pc = "done" /\ Len(batches) = 3
    /\ pauses = <<1, 2>>

\* C5: a live run posts no request for a recipient whose phone is missing,
\* blank or without a digit, and counts each such recipient as an error.
C5_NoRequestForBlankPhone ==
    LiveRun =>
        /\ \A p \in BlankRows : RequestsFor(p) = {}
        /\ pc = "done" => error_count >= Cardinality(BlankRows)

\* C6: in test mode no request is posted and no counter changes, in the text,
\* image and broadcast tabs.
C6_TestModeSendsNothing ==
    TestRun =>
        /\ httpLog = <<>> /\ answers = <<>>
        /\ pc # "sending"
        /\ sent_count = 0 /\ error_count = 0

C6_Witness ==
    /\ TestRun /\ pc = "done" /\ total >= 2
    /\ \E k \in 1..total : ~HasDigit(filtered_df[k].phone)

\* C7: a live run never stops on an exception, and once it has posted its
\* first request it goes on to completion with every recipient counted.
C7_LiveRunCompletes ==
    /\ [](LiveRun => pc # "crashed")
    /\ (LiveRun /\ httpLog # <<>>)
          ~> (LiveRun /\ pc = "done" /\ sent_count + error_count = total)

C7_Witness ==
    /\ LiveRun /\ pc = "done" /\ httpLog # <<>>
    /\ \E k \in 1..Len(answers) : answers[k] = "neterr"
    /\ \E k \in 1..Len(answers) : answers[k] = "non200"
    /\ sent_count + error_count = total

ClientCall == tab \in {"api_chat", "api_image", "pool"}

\* C8: with the instance id or the token missing, a send operation raises
\* before it posts anything, and the page starts no run.
\* the messenger has no instance id (no base URL) or no token
Unconfigured(m) == m.base_url = None \/ m.api_token \in {<<>>, None}
\* the page has no instance id or no token
PageUnconfigured == instance_id = <<>> \/ api_token = <<>>

C8_NoSendWithoutCredentials ==
    /\ (ClientCall /\ Unconfigured(messenger)) =>
          pc = "raised" /\ httpLog = <<>> /\ futures = <<>>
    /\ UiRun => ~PageUnconfigured /\ ~Unconfigured(messenger)
    /\ (PageUnconfigured /\ ~ClientCall) => tab = "none" /\ httpLog = <<>>

C8_Witness ==
    /\ tab = "pool" /\ pc = "raised" /\ Unconfigured(messenger)
    /\ messenger.base_url # None

\* C9: when send_broadcast returns, the result list holds exactly one result
\* for each position of the submitted list, tagged with that position's phone.
C9_OneResultPerSubmission ==
    (tab = "pool" /\ pc = "returned") =>
        /\ Len(responses) = Len(formatted_numbers)
        /\ \A n \in 1..Len(formatted_numbers) :
              LET rs == { k \in 1..Len(responses) : responses[k].fut = n }
              IN  /\ Cardinality(rs) = 1
                  /\ \A k \in rs :
                        /\ responses[k].phone = formatted_numbers[n]
                        /\ responses[k].success = (futures[n] = "ok")

C9_Witness ==
    /\ tab = "pool" /\ pc = "returned" /\ Len(formatted_numbers) = 3
    /\ formatted_numbers[1] = formatted_numbers[2]
    /\ responses[1].fut = 3 /\ ~responses[1].success
    /\ responses[2].success

\* C10: every request of a live image run carries the image URL the run was
\* started with.
C10_SameImageForAll ==
    (tab = "image" /\ live_mode) =>
        \A k \in 1..Len(httpLog) :
            httpLog[k].op = "image" /\ httpLog[k].image = image_url

C10_Witness ==
    /\ tab = "image" /\ live_mode /\ pc = "done" /\ Len(httpLog) >= 3
    /\ Truthy(image_url)

\* a string of digits and nothing else
DigitsOnly(s) == \A k \in 1..Len(s) : s[k] \in Digits

\* the calls that go through send_message or send_image
SendCall == tab \in {"api_chat", "api_image", "text", "image", "broadcast"}

\* C11: for every non-empty phone with at least one digit given to a send
\* operation ('+' at any place, any number of times), the formatted phone of
\* the request is made of digits only and formatting it again changes nothing.
C11_FormatPhoneIdempotent ==
    SendCall =>
        \A k \in 1..Len(httpLog) :
            LET r == httpLog[k]
            IN  (r.original_phone # <<>> /\ HasDigit(r.original_phone)) =>
                    /\ DigitsOnly(r.to)
                    /\ _format_phone(r.to) = r.to

\* C12: send_message and send_image never build a request whose `to` field is
\* empty or has no digit (the phone given was empty, null or digit-free).
C12_NoRequestWithoutDigits ==
    SendCall =>
        \A k \in 1..Len(httpLog) :
            httpLog[k].to # <<>> /\ HasDigit(httpLog[k].to)

\* the address mentions the text, letter case ignored
Mentions(addr, text) ==
    /\ addr # NaN
    /\ \E a \in 0..Len(addr), b \in 0..Len(addr) :
          b - a = Len(text) /\ LowerStr(SubSeq(addr, a + 1, b)) = LowerStr(text)

\* the record satisfies every supplied filter (address text a, minimum spend
\* m when positive, earliest purchase date d)
Satisfies(r, a, m, d) ==
    /\ a # <<>> => ("address" \in DOMAIN r /\ Mentions(r.address, a))
    /\ m > 0 => ("total_spent" \in DOMAIN r /\ r.total_spent >= m)
    /\ d # <<>> => ("last_purchase" \in DOMAIN r /\ r.last_purchase >= d[1])

\* the first min(k, matchCount) records that satisfy the filters, in order;
\* k = 0 stands for no limit
FirstMatching(rows, a, m, d, k) ==
    LET matching == SelectSeq(rows, LAMBDA r : Satisfies(r, a, m, d))
    IN  IF k > 0 /\ k < Len(matching) THEN SubSeq(matching, 1, k) ELSE matching

\* C13: every use of Apply Filters stores the first min(k, matchCount)
\* records that satisfy all supplied filters, in their original order, and the
\* whole table in its order when no filter is supplied.
C13_SelectFirstMatching ==
    [][\A a \in AddressInputs, m \in MinSpentInputs, d \in DateInputs,
          k \in LimitInputs :
          ApplyFilters(a, m, d, k) =>
              /\ ui_error' = "" /\ has_filtered'
              /\ (a = <<>> /\ m = 0 /\ d = <<>> /\ k = 0) => filtered_df' = df
              /\ filtered_df' = FirstMatching(df, a, m, d, k)]_vars

Customer == <<"C", "u", "s", "t", "o", "m", "e", "r">>

\* the name to greet the recipient with: its own, "Customer" when it has none
NameOrCustomer(row) ==
    IF "name" \notin DOMAIN row THEN Customer
    ELSE IF row.name \in {NaN, None, <<>>} THEN Customer
    ELSE row.name

\* the body / caption a request of the run must carry for the row
Rendering(row) ==
    IF tab = "image" /\ ~Truthy(template) THEN None
    ELSE Replace(template, NameOrCustomer(row))

\* C14: every request of a live run carries the template with {name} replaced
\* by its recipient's own name, or by "Customer" when the recipient has no
\* name, and a completed run has sent that text to every recipient with a
\* usable phone; send_broadcast renders the message for each recipient too
\* (its recipients are bare phone numbers, so {name} becomes "Customer").
C14_RenderedPerRecipient ==
    /\ LiveRun =>
          /\ \A k \in 1..Len(httpLog) :
                httpLog[k].body = Rendering(filtered_df[httpLog[k].pos])
          /\ pc = "done" =>
                \A p \in 1..total :
                    HasDigit(filtered_df[p].phone) => RequestsFor(p) # {}
    /\ tab = "pool" =>
          \A k \in 1..Len(httpLog) :
              httpLog[k].body = Replace(template, Customer)

\* what is left of a missing phone value after clean_phone_numbers is "+"
MissingPhone(row) == row.phone \in {NaN, None, <<>>, <<"+">>}

\* C15: no record with a missing phone is in the loaded table, in a selection
\* or in front of a dispatch loop.
C15_MissingPhonesDropped ==
    /\ has_df => \A k \in 1..Len(df) : ~MissingPhone(df[k])
    /\ has_filtered =>
          \A k \in 1..Len(filtered_df) : ~MissingPhone(filtered_df[k])

\* the recipients the run skipped (the "Missing phone number" branch)
SkippedRows == { errorLog[k].pos : k \in { j \in 1..Len(errorLog) :
                                              errorLog[j].kind = "skip" } }

\* C16: a live run issues at most one request per recipient (no retry, no
\* recipient contacted twice), and when it completes the number of requests
\* equals the number of recipients that were not skipped.
C16_OneRequestPerRecipient ==
    LiveRun =>
        /\ \A p \in 1..total : Cardinality(RequestsFor(p)) <= 1
        /\ \A k \in 1..Len(httpLog) : httpLog[k].pos \in 1..total
        /\ pc = "done" =>
              Len(httpLog) = Cardinality((1..total) \ SkippedRows)

\* C17: in a live run of the text or image tab, a per-item pause has been
\* taken between any two consecutive requests, whether the earlier of the two
\* succeeded or failed.
C17_PauseAfterEverySend ==
    (LiveRun /\ tab \in {"text", "image"}) =>
        \A k \in 1..(Len(httpLog) - 1) :
            \E n \in 1..Len(pauses) :
                httpLog[k].pos <= pauses[n] /\ pauses[n] < httpLog[k + 1].pos

\* requests of the run the provider has not answered yet
InFlight == Len(httpLog) - Len(answers)

\* position in the selection of the recipient the loop is at
CurrentPos == IF tab = "broadcast" THEN RowsIn(batches, batch_idx) + i ELSE i

\* C18: in a live run of the page the requests are issued in selection order
\* (batches in order, recipients in order within a batch) and never overlap:
\* at most one request is unanswered, and while the request for a recipient is
\* in flight every earlier recipient has been answered and counted.
C18_SequentialInOrder ==
    LiveRun =>
        /\ InFlight \in {0, 1}
        /\ InFlight = 1 <=> pc = "sending"
        /\ \A k \in 1..(Len(httpLog) - 1) : httpLog[k].pos < httpLog[k + 1].pos
        /\ pc = "sending" =>
              /\ httpLog[Len(httpLog)].pos = CurrentPos
              /\ sent_count + error_count = CurrentPos - 1
        /\ pc = "done" => sent_count + error_count = total

C18_Witness ==
    /\ LiveRun /\ tab = "broadcast" /\ pc = "sending" /\ batch_idx >= 1
    /\ Len(httpLog) = 3 /\ answers = <<"non200", "ok">>

\* C19: during send_broadcast at most 5 requests are in flight at any time,
\* however many recipients were submitted.
C19_AtMostFiveInFlight ==
    tab = "pool" =>
        /\ Cardinality({ k \in 1..Len(futures) : futures[k] = "running" }) <= 5
        /\ Len(httpLog)
              - Cardinality({ k \in 1..Len(futures) :
                                futures[k] \in {"ok", "non200", "raised"} }) <= 5

C19_Witness ==
    /\ tab = "pool" /\ Len(futures) > 5
    /\ Cardinality({ k \in 1..Len(futures) : futures[k] = "running" }) = 5
    /\ \E k \in 1..Len(futures) : futures[k] = "queued"

\* the tasks of the call whose request got an answer or failed
Answered == { k \in 1..Len(futures) : futures[k] \in {"ok", "non200", "raised"} }
\* the results recorded for task k
ResultsOf(k) == { n \in 1..Len(responses) : responses[n].fut = k }

\* C20: in send_broadcast a failed task (non-200 answer, or an exception in
\* the worker) is recorded as one failure result tagged with its phone, and it
\* neither cancels nor blocks the others: the call never raises, a waiting
\* task can still start and a running one can still succeed, and at return
\* every task has run once and its success flag is that of its own answer.
C20_TaskFailureIsolated ==
    (tab = "pool" /\ ~Unconfigured(messenger)) =>
        /\ pc # "raised"
        /\ \A k \in 1..Len(futures) :
              /\ Cardinality(ResultsOf(k)) <= 1
              /\ \A n \in ResultsOf(k) :
                    /\ k \in Answered
                    /\ responses[n].phone = formatted_numbers[k]
                    /\ responses[n].success = (futures[k] = "ok")
              /\ (futures[k] = "queued" /\ \A j \in 1..(k - 1) : futures[j] # "queued")
                    => ENABLED WorkerStart(k)
              /\ futures[k] = "running" => ENABLED WorkerFinish(k, "ok")
        /\ pc = "returned" =>
              \A k \in 1..Len(formatted_numbers) :
                  /\ k \in Answered
                  /\ Cardinality(RequestsFor(k)) = 1
                  /\ Cardinality(ResultsOf(k)) = 1

C20_Witness ==
    /\ tab = "pool" /\ pc = "returned"
    /\ futures = <<"raised", "non200", "ok">>
    /\ responses[1].fut = 1 /\ ~responses[1].success
    /\ \E n \in 1..Len(responses) : responses[n].fut = 3 /\ responses[n].success

\* C21: while send_broadcast runs, the result list only grows, by one entry
\* at a time and without change to the entries it holds; it grows only in a
\* step of the collecting thread (no worker starts or finishes in that step),
\* and the call's other data (messenger, message, phone list) is not written.
C21_ResultsAppendOnly ==
    [][(tab = "pool" /\ tab' = "pool") =>
          /\ Len(responses') \in {Len(responses), Len(responses) + 1}
          /\ SubSeq(responses', 1, Len(responses)) = responses
          /\ responses' # responses =>
                (pc = "collect" /\ futures' = futures /\ httpLog' = httpLog)
          /\ futures' # futures => responses' = responses
          /\ messenger' = messenger /\ template' = template
          /\ formatted_numbers' = formatted_numbers]_vars

C21_Witness ==
    /\ tab = "pool" /\ Len(responses) = 2
    /\ \E k \in 1..Len(futures) : futures[k] = "running"

\* the points at which a run over the selection pauses: after each item in
\* the text and image tabs, after each batch but the last in the broadcast tab
PausePoints ==
    IF tab = "broadcast"
    THEN IF Len(batches) <= 1 THEN <<>>
         ELSE [k \in 1..(Len(batches) - 1) |-> RowsIn(batches, k)]
    ELSE IF total = 0 THEN <<>> ELSE [k \in 1..total |-> k]

\* C22: the dry run has the iteration structure of the live run: like the
\* live run it goes through the whole selection (it does not stop early), and
\* a completed run, dry or live, has visited every recipient once, in order,
\* with the same batches, and has paused at the same points.
C22_DryRunSameStructure ==
    /\ TestRun => pc # "crashed"
    /\ (UiRun /\ pc = "done") =>
          /\ tab = "broadcast" =>
                (batches = MakeBatches(filtered_df, batch_size)
                    /\ batch_idx = Len(batches) - 1 /\ i = Len(batch) + 1)
          /\ tab # "broadcast" => i = total + 1
          /\ pauses = PausePoints

\* C23: no step of a run (live or test, from its start to its end) changes
\* the selection or the loaded table, and a step that makes or replaces the
\* selection leaves the table it selects from unchanged.
C23_RecipientsReadOnly ==
    [][/\ (UiRun \/ UiRun') => (filtered_df' = filtered_df /\ df' = df)
       /\ (has_filtered' # has_filtered \/ filtered_df' # filtered_df)
              => df' = df]_vars

C23_Witness ==
    /\ LiveRun /\ pc = "done" /\ sent_count >= 1 /\ error_count >= 1
    /\ Len(filtered_df) < Len(df)

\* the requests of the run the provider answered with HTTP 200 (the body of
\* the answer is JSON or not)
Answered200 == { k \in 1..Len(answers) : answers[k] \in {"ok", "badjson"} }

\* C24: in a live run sentCount equals the number of requests the provider
\* has answered with HTTP 200, and no recipient is counted twice: the two
\* counters add up to the number of recipients processed so far.
C24_SentCountIsSuccesses ==
    LiveRun =>
        /\ sent_count = Cardinality(Answered200)
        /\ sent_count + error_count = CurrentPos - 1

\* The debug output of a live text or image run shows the two stored entries
\* after a recipient was handled: on the success path and, when they are in
\* the session state, on the error path.
DebugShown ==
    /\ LiveRun /\ tab \in {"text", "image"} /\ debug_mode
    /\ pc \in {"loop", "done"} /\ i > 1
    /\ last_api_request # NoCall /\ last_api_response # NoCall

\* C25: whenever the stored last_api_request and last_api_response are both
\* present and shown after a send, on the success path or on the error path,
\* the response is the answer to that request: both belong to the same send
\* call, also when a send raised before an answer arrived.
C25_DebugEntriesSameCall ==
    DebugShown => last_api_response = last_api_request

\* a test-mode run of the text or the image tab
TestProgress ==
    /\ TestRun /\ tab \in {"text", "image"}
    /\ pc \in {"loop", "done", "crashed"}

\* C26: in test mode of the text and image tabs the value given to the
\* progress bar, (row index + 1) / total, stays within [0, 1] and is 1 once
\* the last recipient was handled, for every selection.
C26_TestProgressWithinUnit ==
    TestProgress =>
        /\ progress[1] >= 0 /\ progress[1] <= progress[2]
        /\ (pc = "done" /\ total > 0) => progress[1] = progress[2]

\* a live run of the text or the image tab between two recipients or at its end
LiveProgress ==
    /\ LiveRun /\ tab \in {"text", "image"}
    /\ pc \in {"loop", "done"}

\* C27: in a live text or image run the value given to the progress bar is
\* (sent_count + error_count) / total for the recipients handled so far, and
\* it is 1 when the run has completed, for every pattern of successes,
\* failures and skips.
C27_LiveProgressTracksCounts ==
    LiveProgress =>
        /\ progress[1] * total = (sent_count + error_count) * progress[2]
        /\ (pc = "done" /\ total > 0) => progress[1] = progress[2]

====
